---- MODULE Spec2Model ----
(***************************************************************************)
(* Model of fourier_transform.cpp: class FourierTransform (radix-2 FFT,    *)
(* inverse, padding, dominant frequencies) and class SeasonalDecomposition *)
(* (moving-average trend, FFT-based seasonal component, residual).         *)
(*                                                                         *)
(* A double is modelled as a fixed-point number: an integer counting units *)
(* of 1/Scale, or the value NaN.  Addition, subtraction and negation are   *)
(* exact; multiplication, division, sqrt, cos and sin round to the nearest *)
(* unit, as the double operations round to the nearest double.  Vectors    *)
(* are sequences: the element the code calls v[i] is v[i + 1] here.        *)
(***************************************************************************)
EXTENDS Integers, Sequences, FiniteSets

\* ---------------------------------------------------------------- bounds

\* FourierTransform: longest input, largest top_k, compute() calls per object.
MaxLen == 6
MaxTopK == 4
MaxComputes == 1
\* fft/ifft called directly on a buffer: longest buffer, calls per buffer.
MaxN == 4
MaxOps == 2
\* SeasonalDecomposition: longest series, period range, calls per object.
MaxSeries == 5
MaxPeriod == 4
MaxNegPeriod == 2
MaxCalls == 2

\* ------------------------------------------------------------ arithmetic

\* Units per 1.0 of the fixed-point representation of double.
Scale == 1000

\* The quiet NaN that 0.0 / 0 produces; it is outside the range of values.
NaN == -1073741824

Min(a, b) == IF a <= b THEN a ELSE b
Max(a, b) == IF a >= b THEN a ELSE b
IAbs(a) == IF a >= 0 THEN a ELSE -a

\* C++ int division truncates toward zero.
CDiv(a, b) == IF a >= 0 THEN a \div b ELSE -((-a) \div b)

\* p / q (q > 0) rounded to the nearest integer, halves away from zero.
RoundDiv(p, q) ==
  IF p >= 0 THEN (2 * p + q) \div (2 * q) ELSE -((2 * (-p) + q) \div (2 * q))

IsNaN(a) == a = NaN

DAdd(a, b) == IF IsNaN(a) \/ IsNaN(b) THEN NaN ELSE a + b
DSub(a, b) == IF IsNaN(a) \/ IsNaN(b) THEN NaN ELSE a - b
DNeg(a) == IF IsNaN(a) THEN NaN ELSE -a
DMul(a, b) == IF IsNaN(a) \/ IsNaN(b) THEN NaN ELSE RoundDiv(a * b, Scale)

\* double / int: the int converts to double; 0.0 / 0 is NaN (the code never
\* divides a non-zero double by zero).
DDivInt(a, c) ==
  IF IsNaN(a) \/ c = 0 THEN NaN
  ELSE IF c > 0 THEN RoundDiv(a, c) ELSE RoundDiv(-a, -c)

\* operator> on doubles: false when either side is NaN.
DGt(a, b) == ~IsNaN(a) /\ ~IsNaN(b) /\ a > b

\* Largest r with r * r <= v, by bisection on lo..hi.
RECURSIVE IsqrtIn(_, _, _)
IsqrtIn(v, lo, hi) ==
  IF lo >= hi THEN lo
  ELSE LET mid == (lo + hi + 1) \div 2
       IN IF mid * mid <= v THEN IsqrtIn(v, mid, hi) ELSE IsqrtIn(v, lo, mid - 1)

\* sqrt rounded to the nearest integer, for 0 <= v < 2^31.
Isqrt(v) ==
  LET r == IsqrtIn(v, 0, Min(v, 46340))
  IN IF v - r * r > r THEN r + 1 ELSE r

\* Largest component for which re^2 + im^2 is formed directly.
HypotDirect == 30000

\* std::abs(complex<double>): the Euclidean norm, computed as hypot does, on
\* components scaled down when their squares would leave the integer range.
Abs(z) ==
  IF IsNaN(z[1]) \/ IsNaN(z[2]) THEN NaN
  ELSE LET a == IAbs(z[1])
           b == IAbs(z[2])
           s == (Max(a, b) \div HypotDirect) + 1
       IN s * Isqrt((a \div s) * (a \div s) + (b \div s) * (b \div s))

\* cos(2 pi m / N) and sin(2 pi m / N) in units of 1/Scale, row N, column m + 1.
CosTab ==
  <<
    <<1000>>,
    <<1000, -1000>>,
    <<1000, -500, -500>>,
    <<1000, 0, -1000, 0>>,
    <<1000, 309, -809, -809, 309>>,
    <<1000, 500, -500, -1000, -500, 500>>,
    <<1000, 623, -223, -901, -901, -223, 623>>,
    <<1000, 707, 0, -707, -1000, -707, 0, 707>>,
    <<1000, 766, 174, -500, -940, -940, -500, 174, 766>>,
    <<1000, 809, 309, -309, -809, -1000, -809, -309, 309, 809>>,
    <<1000, 841, 415, -142, -655, -959, -959, -655, -142, 415, 841>>,
    <<1000, 866, 500, 0, -500, -866, -1000, -866, -500, 0, 500, 866>>,
    <<1000, 885, 568, 121, -355, -749, -971, -971, -749, -355, 121, 568, 885>>,
    <<1000, 901, 623, 223, -223, -623, -901, -1000, -901, -623, -223, 223, 623, 901>>,
    <<1000, 914, 669, 309, -105, -500, -809, -978, -978, -809, -500, -105, 309, 669, 914>>,
    <<1000, 924, 707, 383, 0, -383, -707, -924, -1000, -924, -707, -383, 0, 383, 707, 924>>
  >>

SinTab ==
  <<
    <<0>>,
    <<0, 0>>,
    <<0, 866, -866>>,
    <<0, 1000, 0, -1000>>,
    <<0, 951, 588, -588, -951>>,
    <<0, 866, 866, 0, -866, -866>>,
    <<0, 782, 975, 434, -434, -975, -782>>,
    <<0, 707, 1000, 707, 0, -707, -1000, -707>>,
    <<0, 643, 985, 866, 342, -342, -866, -985, -643>>,
    <<0, 588, 951, 951, 588, 0, -588, -951, -951, -588>>,
    <<0, 541, 910, 990, 756, 282, -282, -756, -990, -910, -541>>,
    <<0, 500, 866, 1000, 866, 500, 0, -500, -866, -1000, -866, -500>>,
    <<0, 465, 823, 993, 935, 663, 239, -239, -663, -935, -993, -823, -465>>,
    <<0, 434, 782, 975, 975, 782, 434, 0, -434, -782, -975, -975, -782, -434>>,
    <<0, 407, 743, 951, 995, 866, 588, 208, -208, -588, -866, -995, -951, -743, -407>>,
    <<0, 383, 707, 924, 1000, 924, 707, 383, 0, -383, -707, -924, -1000, -924, -707, -383>>
  >>

\* cos(2 * PI * m / N) for integers m >= 0, N >= 1.
Cos(m, N) == CosTab[N][(m % N) + 1]
Sin(m, N) == SinTab[N][(m % N) + 1]

\* ------------------------------------------------------ complex<double>

\* complex<double>(re, 0.0)
Cplx(re) == <<re, 0>>
CAdd(a, b) == <<DAdd(a[1], b[1]), DAdd(a[2], b[2])>>
CSub(a, b) == <<DSub(a[1], b[1]), DSub(a[2], b[2])>>
CMul(a, b) ==
  <<DSub(DMul(a[1], b[1]), DMul(a[2], b[2])),
    DAdd(DMul(a[1], b[2]), DMul(a[2], b[1]))>>
Conj(a) == <<a[1], DNeg(a[2])>>
\* x / complex<double>(N, 0)
CDivInt(a, N) == <<DDivInt(a[1], N), DDivInt(a[2], N)>>
\* polar(1.0, -2 * PI * k / N)
Polar(k, N) == <<Cos(k, N), -Sin(k, N)>>

RECURSIVE IsPow2(_)
IsPow2(m) == m = 1 \/ (m > 1 /\ m % 2 = 0 /\ IsPow2(m \div 2))

\* ------------------------------------------------------ FourierTransform

\* The butterfly of fft with the subtraction replaced by an addition.
Butterfly_SameSign(x, even, odd) ==
  LET N == Len(x)
      h == N \div 2
      t(k) == CMul(Polar(k, N), odd[k + 1])
  IN [j \in 1..N |->
        IF j <= h THEN CAdd(even[j], t(j - 1))
        ELSE IF j <= 2 * h THEN CAdd(even[j - h], t(j - h - 1))
        ELSE x[j]]

\* The combine loop of fft: x[k] = even[k] + t, x[k + N/2] = even[k] - t for
\* k < N/2; an element past 2 * (N/2) is not written.
Butterfly(x, even, odd) ==
  LET N == Len(x)
      h == N \div 2
      t(k) == CMul(Polar(k, N), odd[k + 1])
  IN [j \in 1..N |->
        IF j <= h THEN CAdd(even[j], t(j - 1))
        ELSE IF j <= 2 * h THEN CSub(even[j - h], t(j - h - 1))
        ELSE x[j]]

\* fft(x): the buffer after the call.  There is no check of N.
RECURSIVE fft(_)
fft(x) ==
  LET N == Len(x)
      h == N \div 2
  IN IF N <= 1 THEN x
     ELSE Butterfly(x,
                    fft([i \in 1..h |-> x[2 * (i - 1) + 1]]),
                    fft([i \in 1..h |-> x[2 * (i - 1) + 2]]))

\* ifft without the division by N.
ifft_NoScale(x) ==
  LET N == Len(x)
      y == fft([i \in 1..N |-> Conj(x[i])])
  IN [i \in 1..N |-> Conj(y[i])]

\* ifft(x): conjugate, forward transform, conjugate and divide by N.
ifft(x) ==
  LET N == Len(x)
      y == fft([i \in 1..N |-> Conj(x[i])])
  IN [i \in 1..N |-> CDivInt(Conj(y[i]), N)]

\* The padding loop with <= for <.
RECURSIVE PaddedSizeFrom_Le(_, _)
PaddedSizeFrom_Le(p, len) == IF p <= len THEN PaddedSizeFrom_Le(p * 2, len) ELSE p

\* while (padded_size < n) padded_size *= 2, from padded_size = p.
RECURSIVE PaddedSizeFrom(_, _)
PaddedSizeFrom(p, len) == IF p < len THEN PaddedSizeFrom(p * 2, len) ELSE p

\* padded_data of compute(): the first n entries of data, then zeros.
PaddedData(d, len) ==
  [i \in 1..PaddedSizeFrom(1, len) |-> IF i <= len THEN d[i] ELSE Cplx(0)]

\* getMagnitudeSpectrum(): the norms of the first data.size() / 2 entries.
getMagnitudeSpectrum(d) == [i \in 1..(Len(d) \div 2) |-> Abs(d[i])]

\* The candidate loop starting at bin 0.
FreqMag_FromZero(magnitude) ==
  {<<i, magnitude[i + 1]>> : i \in 0..(Len(magnitude) - 1)}

\* freq_mag of getDominantFrequencies: the pairs (i, magnitude[i]), i >= 1.
FreqMag(magnitude) ==
  {<<i, magnitude[i + 1]>> : i \in 1..(Len(magnitude) - 1)}

\* The comparator of the sort: a.second > b.second.
Before(a, b) == DGt(a[2], b[2])

\* std::sort with that comparator: every order of the pairs in which no pair
\* comes before one it should follow.  std::sort does not promise an order
\* for pairs the comparator ranks equal, so each such order is an outcome.
RECURSIVE SortOutcomes(_)
SortOutcomes(S) ==
  IF S = {} THEN {<<>>}
  ELSE UNION {{<<p>> \o r : r \in SortOutcomes(S \ {p})} :
                p \in {q \in S : \A c \in S : ~Before(c, q)}}

\* The first min(top_k, size) pairs of a sorted freq_mag.
FirstK(sorted, top_k) ==
  LET m == Min(top_k, Len(sorted))
  IN IF m <= 0 THEN <<>> ELSE SubSeq(sorted, 1, m)

\* The lists getDominantFrequencies(top_k) can return for buffer d.
DominantOutcomes(d, top_k) ==
  {FirstK(s, top_k) : s \in SortOutcomes(FreqMag(getMagnitudeSpectrum(d)))}

\* -------------------------------------------------- SeasonalDecomposition

\* vector<double>::resize(len) on an empty vector: len zeros.
ZeroVec(len) == [i \in 1..len |-> 0]

\* The window loop with j < window/2 for j <= window/2.
TrendWindow_HalfOpen(len, window, i) ==
  {idx \in {i + j : j \in (-CDiv(window, 2))..(CDiv(window, 2) - 1)} :
     idx >= 0 /\ idx < len}

\* The indices idx = i + j that extractTrend reads for element i: j runs from
\* -(window/2) to window/2 and idx passes the range check.
TrendWindow(len, window, i) ==
  {idx \in {i + j : j \in (-CDiv(window, 2))..CDiv(window, 2)} :
     idx >= 0 /\ idx < len}

\* sum += v[idx] over the indices of S, in increasing order, from 0.0.
RECURSIVE SumIdx(_, _)
SumIdx(v, S) ==
  IF S = {} THEN 0
  ELSE LET m == CHOOSE k \in S : \A l \in S : l <= k
       IN DAdd(SumIdx(v, S \ {m}), v[m + 1])

\* The locals of extractTrend for each element: indices read, count, sum.
TrendLocals(orig, window) ==
  [i \in 1..Len(orig) |->
     LET W == TrendWindow(Len(orig), window, i - 1)
     IN [reads |-> W, count |-> Cardinality(W), sum |-> SumIdx(orig, W)]]

\* extractTrend(): trend[i] = sum / count.
extractTrend(s) ==
  LET loc == TrendLocals(s.original, s.period)
  IN [s EXCEPT !.trend = [i \in 1..Len(s.original) |->
                            DDivInt(loc[i].sum, loc[i].count)],
               !.trendLog = loc,
               !.stages = Append(@, "trend")]

\* detrended[i] = original[i] - trend[i].
Detrended(orig, tr) == [i \in 1..Len(orig) |-> DSub(orig[i], tr[i])]

\* FourierTransform ft(detrended); ft.compute(): the transformed buffer.
TransformOf(v) == fft(PaddedData([i \in 1..Len(v) |-> Cplx(v[i])], Len(v)))

\* seasonal[i] after the loop over the first m pairs of dominant.
RECURSIVE SeasonalAt(_, _, _, _)
SeasonalAt(dominant, size, i, m) ==
  IF m = 0 THEN 0
  ELSE DAdd(SeasonalAt(dominant, size, i, m - 1),
            DMul(DDivInt(dominant[m][2], size), Cos(dominant[m][1] * i, size)))

RECURSIVE SumSeq(_, _)
SumSeq(v, m) == IF m = 0 THEN 0 ELSE DAdd(SumSeq(v, m - 1), v[m])

\* The reconstruction and the normalisation of extractSeasonal.
SeasonalFrom(dominant, size) ==
  LET raw == [i \in 1..size |-> SeasonalAt(dominant, size, i - 1, Len(dominant))]
      seasonal_mean == DDivInt(SumSeq(raw, size), size)
  IN [i \in 1..size |-> DSub(raw[i], seasonal_mean)]

\* The seasonal vectors extractSeasonal() can produce from original and trend.
SeasonalOutcomes(orig, tr) ==
  {SeasonalFrom(dominant, Len(orig)) :
     dominant \in DominantOutcomes(TransformOf(Detrended(orig, tr)), 3)}

\* extractSeasonal(): the states it can leave.
extractSeasonal(s) ==
  {[s EXCEPT !.seasonal = v, !.stages = Append(@, "seasonal")] :
     v \in SeasonalOutcomes(s.original, s.trend)}

\* extractResidual without the seasonal term.
extractResidual_NoSeasonal(s) ==
  [s EXCEPT !.residual = [i \in 1..Len(s.original) |->
                            DSub(s.original[i], s.trend[i])],
            !.stages = Append(@, "residual")]

\* extractResidual(): residual[i] = original[i] - trend[i] - seasonal[i].
extractResidual(s) ==
  [s EXCEPT !.residual = [i \in 1..Len(s.original) |->
                            DSub(DSub(s.original[i], s.trend[i]), s.seasonal[i])],
            !.stages = Append(@, "residual")]

\* The states one stage can leave.
StageOutcomes(s, stage) ==
  CASE stage = "trend" -> {extractTrend(s)}
    [] stage = "seasonal" -> extractSeasonal(s)
    [] stage = "residual" -> {extractResidual(s)}

\* decompose with the seasonal step before the trend step.
DecomposeOrder_SeasonalFirst == <<"seasonal", "trend", "residual">>

\* The calls of decompose(), in order.
DecomposeOrder == <<"trend", "seasonal", "residual">>

\* The states left by the first m calls of decompose().
RECURSIVE DecomposeUpTo(_, _)
DecomposeUpTo(s, m) ==
  IF m = 0 THEN {s}
  ELSE UNION {StageOutcomes(t, DecomposeOrder[m]) : t \in DecomposeUpTo(s, m - 1)}

decompose(s) == DecomposeUpTo(s, Len(DecomposeOrder))

\* --------------------------------------------------------------- state

VARIABLES
  \* FourierTransform object
  input,        \* the constructor's argument
  data,         \* member data
  n,            \* member n
  padded_data,  \* the local padded_data of the last compute(), before fft
  computes,     \* compute() calls so far
  result,       \* the last getDominantFrequencies call: argument, locals, value
  \* a buffer handed to fft / ifft directly
  x0,           \* the buffer before the first call
  x,            \* the buffer
  ops,          \* the calls made on it
  \* SeasonalDecomposition object
  sd,           \* members original, period, trend, seasonal, residual, with
                \* the locals of the last extractTrend and the stages run
  calls         \* the public methods called on it

vars == <<input, data, n, padded_data, computes, result, x0, x, ops, sd, calls>>
ftVars == <<input, data, n, padded_data, computes, result>>
rawVars == <<x0, x, ops>>
sdVars == <<sd, calls>>

\* Sample values of the inputs.
Samples == {0, Scale}
SeriesSamples == {0, Scale}
BufferSamples ==
  {<<0, 0>>, <<Scale, 0>>, <<0, Scale>>, <<-Scale, -Scale>>, <<2 * Scale, -Scale>>}

SeqsUpTo(S, m) == UNION {[1..len -> S] : len \in 0..m}
TopKs == (-1)..MaxTopK
Periods == (-MaxNegPeriod)..MaxPeriod

NoResult ==
  [called |-> FALSE, top_k |-> 0, size |-> 0, magnitude |-> <<>>,
   computes |-> 0, pairs |-> <<>>]

\* FourierTransform(input): n = input.size(), data[i] = (input[i], 0.0).
FTConstructed(in) ==
  /\ input = in
  /\ n = Len(in)
  /\ data = [i \in 1..Len(in) |-> Cplx(in[i])]
  /\ padded_data = <<>>
  /\ computes = 0
  /\ result = NoResult

\* SeasonalDecomposition(data, period_length): copies, then three resizes.
SDConstructed(series, period_length) ==
  /\ sd = [original |-> series, period |-> period_length,
           trend |-> ZeroVec(Len(series)),
           seasonal |-> ZeroVec(Len(series)),
           residual |-> ZeroVec(Len(series)),
           trendLog |-> <<>>, stages |-> <<>>]
  /\ calls = <<>>

RawGiven(buf) == x0 = buf /\ x = buf /\ ops = <<>>

\* ------------------------------------------------ FourierTransform object

\* The inputs: every sample sequence up to MaxLen, and the alternating
\* 8-sample signal.
Alternating == <<Scale, 0, Scale, 0, Scale, 0, Scale, 0>>
Inputs == SeqsUpTo(Samples, MaxLen) \cup {Alternating}

Init ==
  /\ \E in \in Inputs : FTConstructed(in)
  /\ RawGiven(<<>>)
  /\ SDConstructed(<<>>, 1)

\* compute()
Compute ==
  /\ computes < MaxComputes
  /\ padded_data' = PaddedData(data, n)
  /\ data' = fft(padded_data')
  /\ computes' = computes + 1
  /\ UNCHANGED <<input, n, result, rawVars, sdVars>>

\* getDominantFrequencies(top_k)
GetDominantFrequencies ==
  /\ \E top_k \in TopKs :
       \E pairs \in DominantOutcomes(data, top_k) :
         result' = [called |-> TRUE, top_k |-> top_k, size |-> Len(data),
                    magnitude |-> getMagnitudeSpectrum(data),
                    computes |-> computes, pairs |-> pairs]
  /\ UNCHANGED <<input, data, n, padded_data, computes, rawVars, sdVars>>

Next == Compute \/ GetDominantFrequencies

Spec == Init /\ [][Next]_vars

\* ------------------------------------------- fft / ifft called directly

InitRaw ==
  /\ \E buf \in SeqsUpTo(BufferSamples, MaxN) : RawGiven(buf)
  /\ FTConstructed(<<>>)
  /\ SDConstructed(<<>>, 1)

\* fft(x)
CallFft ==
  /\ Len(ops) < MaxOps
  /\ x' = fft(x)
  /\ ops' = Append(ops, "fft")
  /\ UNCHANGED <<x0, ftVars, sdVars>>

\* ifft(x)
CallIfft ==
  /\ Len(ops) < MaxOps
  /\ x' = ifft(x)
  /\ ops' = Append(ops, "ifft")
  /\ UNCHANGED <<x0, ftVars, sdVars>>

NextRaw == CallFft \/ CallIfft

SpecRaw == InitRaw /\ [][NextRaw]_vars

\* ------------------------------------------ SeasonalDecomposition object

InitSD ==
  /\ \E series \in SeqsUpTo(SeriesSamples, MaxSeries) :
       \E period_length \in Periods : SDConstructed(series, period_length)
  /\ FTConstructed(<<>>)
  /\ RawGiven(<<>>)

ExtractTrend ==
  /\ Len(calls) < MaxCalls
  /\ sd' = extractTrend(sd)
  /\ calls' = Append(calls, "extractTrend")
  /\ UNCHANGED <<ftVars, rawVars>>

ExtractSeasonal ==
  /\ Len(calls) < MaxCalls
  /\ sd' \in extractSeasonal(sd)
  /\ calls' = Append(calls, "extractSeasonal")
  /\ UNCHANGED <<ftVars, rawVars>>

ExtractResidual ==
  /\ Len(calls) < MaxCalls
  /\ sd' = extractResidual(sd)
  /\ calls' = Append(calls, "extractResidual")
  /\ UNCHANGED <<ftVars, rawVars>>

Decompose ==
  /\ Len(calls) < MaxCalls
  /\ sd' \in decompose(sd)
  /\ calls' = Append(calls, "decompose")
  /\ UNCHANGED <<ftVars, rawVars>>

NextSD == ExtractTrend \/ ExtractSeasonal \/ ExtractResidual \/ Decompose

SpecSD == InitSD /\ [][NextSD]_vars

\* -------------------------------------------------------------- claims

LastCall == IF calls = <<>> THEN "none" ELSE calls[Len(calls)]

\* C1: after decompose() on a decomposer built from a non-empty series and a
\* period >= 1, trend, seasonal and residual have the length of original and
\* trend[i] + seasonal[i] + residual[i] = original[i] for every i.
C1_Reconstruction ==
  (LastCall = "decompose" /\ sd.period >= 1 /\ Len(sd.original) >= 1) =>
    /\ Len(sd.trend) = Len(sd.original)
    /\ Len(sd.seasonal) = Len(sd.original)
    /\ Len(sd.residual) = Len(sd.original)
    /\ \A i \in 1..Len(sd.original) :
         /\ ~IsNaN(sd.residual[i])
         /\ DAdd(DAdd(sd.trend[i], sd.seasonal[i]), sd.residual[i]) = sd.original[i]

\* A decomposition with period >= 1 whose three components are all non-zero
\* at some index.
C1_Witness ==
  /\ LastCall = "decompose" /\ sd.period >= 1
  /\ \E i \in 1..Len(sd.original) :
       sd.trend[i] # 0 /\ sd.seasonal[i] # 0 /\ sd.residual[i] # 0

\* C2: after compute() on an object built from n samples, the buffer length P
\* is the smallest power of two >= n (1 when n <= 1), the padded buffer the
\* transform ran on held the n entries of data first (the input, for the first
\* compute()) and zeros at n..P-1.
C2_PowerOfTwoPadding ==
  computes >= 1 =>
    LET P == Len(data)
    IN /\ n = Len(input)
       /\ IsPow2(P) /\ P >= n
       /\ \A q \in 1..(P - 1) : IsPow2(q) => q < n
       /\ Len(padded_data) = P
       /\ computes = 1 => \A i \in 1..n : padded_data[i] = <<input[i], 0>>
       /\ \A i \in (n + 1)..P : padded_data[i] = <<0, 0>>

\* compute() has padded a 5-sample input with a non-zero sample to 8 entries.
C2_Witness ==
  /\ computes >= 1 /\ n = 5 /\ Len(data) = 8
  /\ padded_data[5] # <<0, 0>> /\ padded_data[8] = <<0, 0>>

\* The bins of a returned list.
Bins(pairs) == {pairs[i][1] : i \in 1..Len(pairs)}

\* C3: getDominantFrequencies(k) after compute() returns min(k, available)
\* pairs, available = max(P/2 - 1, 0); magnitudes non-increasing; every bin in
\* [1, P/2), none twice; each magnitude is that bin's; k <= 0 gives none.
C3_DominantFrequencies ==
  (result.called /\ result.computes >= 1) =>
    LET P == result.size
        available == Max((P \div 2) - 1, 0)
        pairs == result.pairs
    IN /\ Len(pairs) = Min(Max(result.top_k, 0), available)
       /\ \A i \in 1..(Len(pairs) - 1) : pairs[i][2] >= pairs[i + 1][2]
       /\ \A i \in 1..Len(pairs) :
            /\ pairs[i][1] >= 1 /\ pairs[i][1] < P \div 2
            /\ pairs[i][2] = result.magnitude[pairs[i][1] + 1]
       /\ \A i, j \in 1..Len(pairs) : pairs[i][1] = pairs[j][1] => i = j
       /\ result.top_k <= 0 => pairs = <<>>
       /\ result.computes = computes =>
            result.magnitude = [i \in 1..(P \div 2) |-> Abs(data[i])]

\* A call after compute() that cut three bins of differing magnitude to two.
C3_Witness ==
  /\ result.called /\ result.computes >= 1 /\ result.top_k = 2
  /\ result.size = 8 /\ Len(result.pairs) = 2
  /\ result.pairs[1][2] > result.pairs[2][2]
  /\ \E b \in 1..3 : b \notin Bins(result.pairs) /\
                     result.magnitude[b + 1] < result.pairs[2][2]

\* C4: in the returned list, pairs of equal magnitude are in bin order, and
\* when a tie straddles the top_k cut the smaller bins are the ones kept.
C4_StableTies ==
  (result.called /\ result.computes >= 1) =>
    LET pairs == result.pairs
    IN /\ \A i, j \in 1..Len(pairs) :
            (i < j /\ pairs[i][2] = pairs[j][2]) => pairs[i][1] < pairs[j][1]
       /\ \A i \in 1..Len(pairs) :
            \A b \in 1..(Len(result.magnitude) - 1) :
              (b \notin Bins(pairs) /\ result.magnitude[b + 1] = pairs[i][2])
                => pairs[i][1] < b

\* Buffer lengths at which every twiddle factor is 1, -1, i or -i.
ExactLengths == {1, 2, 4}

\* C5: fft and then ifft on a buffer of Gaussian integers of length 1, 2 or 4
\* gives the buffer back, element by element.
C5_RoundTrip ==
  (ops = <<"fft", "ifft">> /\ Len(x0) \in ExactLengths) => x = x0

\* A round trip of a 4-entry buffer through a spectrum that differs from it.
C5_Witness ==
  /\ ops = <<"fft", "ifft">> /\ Len(x0) = 4 /\ x = x0
  /\ fft(x0) # x0 /\ \E i \in 1..4 : x0[i][2] # 0

\* C6: no extractTrend()/extractSeasonal()/extractResidual()/decompose() call
\* runs on a decomposer whose period is < 1 (its construction would have
\* failed with InvalidInput).
C6_NonPositivePeriodRejected == calls # <<>> => sd.period >= 1

\* C7: fft called directly on a buffer whose length is not a power of two does
\* not return normally with a modified buffer.
C7_NonPowerOfTwoRejected ==
  (ops = <<"fft">> /\ Len(x0) >= 1 /\ ~IsPow2(Len(x0))) => x = x0

\* C8 as stated: for input [1,0,1,0,1,0,1,0], after compute() the buffer has
\* length 8, bin 4 is non-zero and every other bin is zero.
C8_OnlyBinFour ==
  (input = Alternating /\ computes = 1) =>
    /\ Len(data) = 8
    /\ data[5] # <<0, 0>>
    /\ \A i \in 1..8 : i # 5 => data[i] = <<0, 0>>

\* C8 amended: for input [1,0,1,0,1,0,1,0], after compute() the buffer has
\* length 8, bin 0 (the sum of the samples) and bin 4 both hold 4, and every
\* other bin is zero.
C8_BinsZeroAndFour ==
  (input = Alternating /\ computes = 1) =>
    /\ Len(data) = 8
    /\ data[1] = <<4 * Scale, 0>>
    /\ data[5] = <<4 * Scale, 0>>
    /\ \A i \in 1..8 : i \notin {1, 5} => data[i] = <<0, 0>>

C8_Witness == input = Alternating /\ computes = 1 /\ Len(data) = 8

\* C9: extractTrend() with period >= 1 reads, for element i, exactly the
\* indices of [i - period/2, i + period/2] that lie in [0, length); the divisor
\* is their number, which is >= 1; trend[i] is their sum over that number.
C9_TrendWindow ==
  (sd.trendLog # <<>> /\ sd.period >= 1) =>
    \A i \in 1..Len(sd.original) :
      LET lo == (i - 1) - (sd.period \div 2)
          hi == (i - 1) + (sd.period \div 2)
          inWindow == {k \in 0..(Len(sd.original) - 1) : lo <= k /\ k <= hi}
      IN /\ sd.trendLog[i].reads = inWindow
         /\ sd.trendLog[i].reads \subseteq 0..(Len(sd.original) - 1)
         /\ sd.trendLog[i].count = Cardinality(inWindow)
         /\ sd.trendLog[i].count >= 1
         /\ sd.trend[i] = RoundDiv(SumIdx(sd.original, inWindow), Cardinality(inWindow))

\* A trend whose window is cut at the left edge and whole in the middle.
C9_Witness ==
  /\ sd.trendLog # <<>> /\ sd.period = 3 /\ Len(sd.original) = 4
  /\ sd.trendLog[1].reads = {0, 1} /\ sd.trendLog[2].reads = {0, 1, 2}
  /\ sd.trendLog[1].count = 2 /\ sd.trendLog[2].count = 3
  /\ sd.trend[1] # sd.original[1]

Zeros == ZeroVec(Len(sd.original))

\* C10: on a fresh decomposer a stage called before its predecessor completes
\* and uses zero for the predecessor's sequence: extractResidual() first gives
\* residual = original with trend and seasonal zero, extractSeasonal() first
\* works on original - 0; decompose() runs trend, seasonal, residual in order.
C10_StageOrder ==
  /\ calls = <<"extractResidual">> =>
       /\ sd.residual = sd.original /\ sd.trend = Zeros /\ sd.seasonal = Zeros
       /\ sd.stages = <<"residual">>
  /\ calls = <<"extractSeasonal">> =>
       /\ sd.trend = Zeros /\ sd.residual = Zeros
       /\ sd.seasonal \in SeasonalOutcomes(sd.original, Zeros)
  /\ calls = <<"extractSeasonal", "extractResidual">> =>
       /\ sd.trend = Zeros
       /\ \A i \in 1..Len(sd.original) :
            sd.residual[i] = DSub(sd.original[i], sd.seasonal[i])
  /\ calls = <<"decompose">> =>
       /\ sd.stages = <<"trend", "seasonal", "residual">>
       /\ sd.trend = extractTrend(sd).trend
       /\ sd.seasonal \in SeasonalOutcomes(sd.original, sd.trend)
       /\ \A i \in 1..Len(sd.original) :
            sd.residual[i] =
              DSub(DSub(sd.original[i], sd.trend[i]), sd.seasonal[i])

\* extractResidual() called first on a series with a non-zero sample.
C10_Witness ==
  /\ calls = <<"extractResidual">>
  /\ \E i \in 1..Len(sd.original) : sd.residual[i] # 0
  /\ sd.residual = sd.original

====
